---- MODULE Spec2Model ----
(***************************************************************************)
(* Model of models/audioset_model.py: the AudioSet LightningModule, its    *)
(* LR range test (history recorder, plot-and-exit trigger, batch-end       *)
(* Stepper advance), optimizer/scheduler configuration and validation      *)
(* aggregation.                                                            *)
(*                                                                         *)
(* Floats are fixed-point integers in units of 1e-5 (1.0 is 100000).       *)
(* A learning rate is represented by its exponent e: the rate              *)
(* base_lr * r^e, r being the Stepper's per-step growth factor.            *)
(***************************************************************************)
EXTENDS Integers, Sequences, FiniteSets

\* ---------------------------------------------------------------- constants

LR_TEST_STEPS == 600

\* ------------------------------------------------------------------- bounds

MaxNbEpochs == 4
MaxDirectCalls == 5
MaxBatchIdx == 1
MaxBatchSize == 3
MaxValBatches == 2

\* ------------------------------------------------------------------- inputs

Optimizers == {"adam", "sgd", "unknown"}
Schedulers == {"cyclic", "exp", "plateau", "unknown"}

\* batches per epoch produced by the train dataloader
EpochLens == {2, 200, 601}

\* loss.item() of successive training_step calls, repeated cyclically
LossPatterns == {<<100000, 50000, 50000>>, <<50000, 100000>>}

\* one validation example: its multi-hot label y and the arg-max class of
\* the logits
Examples ==
  { [y |-> <<1, 0>>, max_class |-> 1],
    [y |-> <<1, 0>>, max_class |-> 2],
    [y |-> <<1, 1>>, max_class |-> 2] }

ValLosses == {30000, 70000}

VARIABLES
  hparams,          \* the hyperparameter record (read-only after Init)
  pc,               \* where the run is
  history,          \* self.history: [lr |-> Seq, loss |-> Seq]
  lr_test,          \* self.lr_test: the Stepper, or Absent
  cyclic_scheduler, \* self.cyclic_scheduler, or Absent
  optimizer_lr,     \* the optimizer's current rate (exponent of r)
  configured,       \* what configure_optimizers returned
  batch_idx,        \* the framework's batch index within the epoch
  epoch,            \* the framework's epoch counter
  epochLen,         \* batches per epoch
  lossPattern,      \* the losses the forward pass produces
  nCalls,           \* training_step calls made so far
  plots,            \* plot_lr invocations
  exitStatus,       \* the status sys.exit was called with, or -1
  error,            \* the exception that ended the run, or "none"
  valOutputs,       \* validation_step outputs collected by the framework
  valResult         \* what validation_end returned

vars == <<hparams, pc, history, lr_test, cyclic_scheduler, optimizer_lr,
          configured, batch_idx, epoch, epochLen, lossPattern, nCalls, plots,
          exitStatus, error, valOutputs, valResult>>

trainVars == <<history, lr_test, cyclic_scheduler, optimizer_lr, configured,
               batch_idx, epoch, nCalls, plots, exitStatus, error>>

valVars == <<valOutputs, valResult>>

inputVars == <<hparams, epochLen, lossPattern>>

\* ------------------------------------------------------------------ helpers

\* an attribute that was never assigned
Absent == [present |-> FALSE]

Min(a, b) == IF a < b THEN a ELSE b

Last(s) == s[Len(s)]

RECURSIVE SumSeq(_)
SumSeq(s) == IF s = <<>> THEN 0 ELSE s[1] + SumSeq(Tail(s))

\* loss.item() of the n-th training_step call (n = 0, 1, ...)
LossAt(n) == lossPattern[(n % Len(lossPattern)) + 1]

\* 0.05 * loss + 0.95 * prev
Smooth(loss, prev) == (5 * loss + 95 * prev) \div 100

\* ------------------------------------------------------------------ Stepper

\* BatchExponentialLR(optimizer, end_lr, num_iter)
NewStepper(end_lr, num_iter) ==
  [present |-> TRUE, end_lr |-> end_lr, num_iter |-> num_iter, steps |-> 0]

\* get_lr(): the current per-group rates, state untouched
get_lr(rate) == <<rate>>

\* step(): every group's rate times r, the step counter plus one
StepperStep(st) == [st EXCEPT !.steps = @ + 1]
StepRate(rate) == rate + 1

\* ----------------------------------------------------------------- __init__

InitCommon ==
  /\ history = [lr |-> <<>>, loss |-> <<>>]
  /\ lr_test = Absent
  /\ cyclic_scheduler = Absent
  /\ optimizer_lr = 0
  /\ configured = "unset"
  /\ batch_idx = 0
  /\ epoch = 0
  /\ nCalls = 0
  /\ plots = 0
  /\ exitStatus = -1
  /\ error = "none"
  /\ valOutputs = <<>>
  /\ valResult = [raised |-> "unset"]

Init ==
  /\ hparams \in [test_lr : BOOLEAN, optimizer : Optimizers,
                  scheduler : Schedulers, max_nb_epochs : 1..MaxNbEpochs]
  /\ epochLen \in EpochLens
  /\ lossPattern \in LossPatterns
  /\ pc = "configuring"
  /\ InitCommon

\* ----------------------------------------------------- configure_optimizers

configure_optimizers ==
  /\ pc = "configuring"
  /\ IF hparams.optimizer \notin {"adam", "sgd"}
       THEN \* optimizer is unbound where it is first used
            /\ error' = "UnboundLocalError"
            /\ pc' = "error"
            /\ UNCHANGED <<lr_test, cyclic_scheduler, configured>>
       ELSE IF hparams.test_lr
         THEN /\ lr_test' = NewStepper("LR_TEST_MAX_LR", LR_TEST_STEPS)
              /\ configured' = "optimizer"
              /\ pc' = "train"
              /\ UNCHANGED <<cyclic_scheduler, error>>
         ELSE IF hparams.scheduler = "cyclic"
           THEN /\ cyclic_scheduler' = [present |-> TRUE, steps |-> 0]
                /\ configured' = "optimizer"
                /\ pc' = "train"
                /\ UNCHANGED <<lr_test, error>>
           ELSE IF hparams.scheduler \in {"exp", "plateau"}
             THEN /\ configured' = "optimizers_and_schedulers"
                  /\ pc' = "train"
                  /\ UNCHANGED <<lr_test, cyclic_scheduler, error>>
             ELSE \* no branch matches: the function falls off its end
                  /\ configured' = "None"
                  /\ pc' = "stopped"
                  /\ UNCHANGED <<lr_test, cyclic_scheduler, error>>
  /\ UNCHANGED <<hparams, history, optimizer_lr, batch_idx, epoch, epochLen,
                 lossPattern, nCalls, plots, exitStatus, valVars>>

\* ------------------------------------------------------------ training_step

\* lines 59-62: the value appended to history['loss'], or the IndexError of
\* history['loss'][-1] on an empty list
LossToAppend(idx, loss, losses) ==
  IF idx # 0
    THEN IF losses = <<>>
           THEN [raised |-> "IndexError", value |-> 0]
           ELSE [raised |-> "none", value |-> Smooth(loss, Last(losses))]
    ELSE [raised |-> "none", value |-> loss]

\* line 52: the plot-and-exit trigger
BudgetReached_gt(hist) == Len(hist.lr) > LR_TEST_STEPS

BudgetReached_early(hist) == Len(hist.lr) >= LR_TEST_STEPS - 1

BudgetReached(hist) == Len(hist.lr) = LR_TEST_STEPS

training_step(idx) ==
  /\ pc = "train"
  /\ nCalls' = nCalls + 1
  /\ LET loss == LossAt(nCalls) IN
     IF hparams.test_lr
       THEN IF BudgetReached(history)
         THEN \* plot_lr(self.history); sys.exit(0)
              /\ plots' = plots + 1
              /\ exitStatus' = 0
              /\ pc' = "exited"
              /\ UNCHANGED <<history, error>>
         ELSE LET lr == get_lr(optimizer_lr)[1]
                  withLr == [history EXCEPT !.lr = Append(@, lr)]
                  v == LossToAppend(idx, loss, history.loss)
              IN  IF v.raised # "none"
                    THEN /\ history' = withLr
                         /\ error' = v.raised
                         /\ pc' = "error"
                         /\ UNCHANGED <<plots, exitStatus>>
                    ELSE /\ history' = [withLr EXCEPT !.loss = Append(@, v.value)]
                         /\ pc' = "batch_end"
                         /\ UNCHANGED <<plots, exitStatus, error>>
       ELSE /\ pc' = "batch_end"
            /\ UNCHANGED <<history, plots, exitStatus, error>>
  /\ UNCHANGED <<hparams, lr_test, cyclic_scheduler, optimizer_lr, configured,
                 batch_idx, epoch, epochLen, lossPattern, valVars>>

\* the trainer passes its own batch index
TrainerTrainingStep == training_step(batch_idx)

\* a caller passes any batch index
DirectTrainingStep ==
  /\ nCalls < MaxDirectCalls
  /\ \E idx \in 0..MaxBatchIdx : training_step(idx)

\* ------------------------------------------------------------- on_batch_end

\* the trainer's loop after the batch-end hook: next batch, next epoch or
\* the end of the run
TrainerAdvance ==
  IF batch_idx + 1 < epochLen
    THEN /\ batch_idx' = batch_idx + 1
         /\ pc' = "train"
         /\ UNCHANGED epoch
    ELSE /\ batch_idx' = 0
         /\ epoch' = epoch + 1
         /\ pc' = IF epoch + 1 < hparams.max_nb_epochs THEN "train"
                                                       ELSE "finished"

\* lines 71-72: the Stepper advances once per batch in test mode
BatchEndStepper_twice ==
  IF hparams.test_lr
    THEN /\ lr_test' = StepperStep(StepperStep(lr_test))
         /\ optimizer_lr' = StepRate(StepRate(optimizer_lr))
    ELSE UNCHANGED <<lr_test, optimizer_lr>>

BatchEndStepper_never == UNCHANGED <<lr_test, optimizer_lr>>

BatchEndStepper ==
  IF hparams.test_lr
    THEN /\ lr_test' = StepperStep(lr_test)
         /\ optimizer_lr' = StepRate(optimizer_lr)
    ELSE UNCHANGED <<lr_test, optimizer_lr>>

on_batch_end ==
  /\ pc = "batch_end"
  /\ BatchEndStepper
  /\ IF hparams.scheduler = "cyclic"
       THEN IF ~cyclic_scheduler.present
         THEN \* self.cyclic_scheduler was never assigned
              /\ error' = "AttributeError"
              /\ pc' = "error"
              /\ UNCHANGED <<cyclic_scheduler, batch_idx, epoch>>
         ELSE /\ cyclic_scheduler' = [cyclic_scheduler EXCEPT !.steps = @ + 1]
              /\ TrainerAdvance
              /\ UNCHANGED error
       ELSE /\ TrainerAdvance
            /\ UNCHANGED <<cyclic_scheduler, error>>
  /\ UNCHANGED <<hparams, history, configured, epochLen, lossPattern, nCalls,
                 plots, exitStatus, valVars>>

Next == configure_optimizers \/ TrainerTrainingStep \/ on_batch_end

Spec == Init /\ [][Next]_vars

\* a caller that passes its own batch indices to training_step
NextDirect == configure_optimizers \/ DirectTrainingStep \/ on_batch_end

SpecDirect == Init /\ [][NextDirect]_vars

\* ---------------------------------------------------------- validation_step

\* the validation batches the dataloader can produce: a loss and 1 to
\* MaxBatchSize examples
RECURSIVE SeqsUpTo(_, _)
SeqsUpTo(S, n) ==
  IF n = 0 THEN {<<>>}
  ELSE LET shorter == SeqsUpTo(S, n - 1)
       IN  shorter \cup {Append(q, e) : q \in {r \in shorter : Len(r) = n - 1},
                                        e \in S}

ValBatches ==
  [loss : ValLosses, examples : SeqsUpTo(Examples, MaxBatchSize) \ {<<>>}]

\* line 82: torch.gather(y, 1, max_class.view(-1, 1)).view(-1)
Correct(examples) ==
  [i \in 1..Len(examples) |-> examples[i].y[examples[i].max_class]]

validation_step(batch) ==
  /\ pc = "validating"
  /\ Len(valOutputs) < MaxValBatches
  /\ valOutputs' = Append(valOutputs, [val_loss |-> batch.loss,
                                       correct |-> Correct(batch.examples)])
  /\ UNCHANGED <<pc, valResult, inputVars, trainVars>>

ValidationStep == \E batch \in ValBatches : validation_step(batch)

\* ----------------------------------------------------------- validation_end

\* a quotient num / den, kept exact
Rat(n, d) == [num |-> n, den |-> d]

RatEq(a, b) == a.num * b.den = b.num * a.den

RatAdd(a, b) == Rat(a.num * b.den + b.num * a.den, a.den * b.den)

\* torch.cat over the per-batch correctness vectors
RECURSIVE Cat(_)
Cat(ts) == IF ts = <<>> THEN <<>> ELSE ts[1] \o Cat(Tail(ts))

RECURSIVE SumOfBatchAccs(_)
SumOfBatchAccs(outs) ==
  IF outs = <<>> THEN Rat(0, 1)
  ELSE RatAdd(Rat(SumSeq(outs[1].correct), Len(outs[1].correct)),
              SumOfBatchAccs(Tail(outs)))

ValAcc_meanOfBatches(outputs) ==
  LET total == SumOfBatchAccs(outputs)
  IN  Rat(total.num, total.den * Len(outputs))

\* lines 91-92: accuracy over the concatenated correctness vectors
ValAcc(outputs) ==
  LET all_corrects == Cat([b \in 1..Len(outputs) |-> outputs[b].correct])
  IN  Rat(SumSeq(all_corrects), Len(all_corrects))

\* line 90: torch.stack([...]).mean()
AvgLoss(outputs) ==
  Rat(SumSeq([b \in 1..Len(outputs) |-> outputs[b].val_loss]), Len(outputs))

validation_end ==
  /\ pc = "validating"
  /\ IF valOutputs = <<>>
       THEN \* torch.stack of an empty list
            /\ valResult' = [raised |-> "RuntimeError"]
            /\ pc' = "error"
       ELSE /\ valResult' = [raised |-> "none",
                             val_loss |-> AvgLoss(valOutputs),
                             val_acc |-> ValAcc(valOutputs)]
            /\ pc' = "validated"
  /\ UNCHANGED <<valOutputs, inputVars, trainVars>>

InitVal ==
  /\ hparams = [test_lr |-> FALSE, optimizer |-> "adam",
                scheduler |-> "plateau", max_nb_epochs |-> 1]
  /\ epochLen = 2
  /\ lossPattern = <<50000, 100000>>
  /\ pc = "validating"
  /\ InitCommon

NextVal == ValidationStep \/ validation_end

SpecVal == InitVal /\ [][NextVal]_vars

\* ------------------------------------------------------------------- claims

\* C1: in LR-test mode, after every completed training_step call the rate
\* and loss sequences of the history have the same length, and that length
\* is min(number of training_step calls made so far, 600).
C1_HistoryLengths ==
  hparams.test_lr =>
    /\ Len(history.lr) = Len(history.loss)
    /\ Len(history.lr) = Min(nCalls, LR_TEST_STEPS)

\* the cap is reached in a later epoch and a further call has been made
C1_Witness ==
  /\ hparams.test_lr
  /\ epoch > 0
  /\ nCalls = LR_TEST_STEPS + 1
  /\ Len(history.loss) = LR_TEST_STEPS

\* C2: counting recorded steps i = 0, 1, 2, ... over the whole run, the
\* value appended to history['loss'] at every step i > 0 is
\* 0.05 * loss_i + 0.95 * smoothed_{i-1}, and the raw loss is appended at
\* step 0 only, for every epoch length.
C2_SmoothedOverRun ==
  hparams.test_lr =>
    /\ Len(history.loss) > 0 => history.loss[1] = LossAt(0)
    /\ \A i \in 2..Len(history.loss) :
         history.loss[i] = Smooth(LossAt(i - 1), history.loss[i - 1])

\* C3: configure_optimizers with the test flag not set and an unsupported
\* scheduler kind raises an explicit error; it never returns without a
\* usable optimizer/scheduler result.
C3_UnknownSchedulerRaises ==
  (/\ pc # "configuring"
   /\ ~hparams.test_lr
   /\ hparams.scheduler \notin {"cyclic", "exp", "plateau"})
  => (error # "none" /\ configured # "None")

\* C4: in LR-test mode the plotter is invoked at most once, only when both
\* history sequences hold exactly 600 entries, and the process then exits
\* with status 0; after the plot the history gets no further entry and the
\* Stepper takes no further step.
C4_PlotOnceThenExit ==
  /\ [](/\ plots <= 1
        /\ plots = 1 => /\ hparams.test_lr
                        /\ Len(history.lr) = LR_TEST_STEPS
                        /\ Len(history.loss) = LR_TEST_STEPS
                        /\ pc = "exited"
                        /\ exitStatus = 0
        /\ plots = 0 => (pc # "exited" /\ exitStatus = -1))
  /\ [][plots >= 1 => UNCHANGED <<history, lr_test, optimizer_lr>>]_vars

C4_Witness == plots = 1 /\ pc = "exited" /\ epoch > 0

\* C5: when training_step and on_batch_end alternate once per batch in
\* LR-test mode, Stepper.step() is called once per recorded batch, never
\* more than 600 times and never after the training_step that plots and
\* exits.
C5_StepperWithinBudget ==
  (hparams.test_lr /\ lr_test.present) =>
    /\ lr_test.steps <= LR_TEST_STEPS
    /\ lr_test.steps <= Len(history.lr)
    /\ Len(history.lr) <= lr_test.steps + 1
    /\ pc \in {"train", "finished", "exited"} =>
         lr_test.steps = Len(history.lr)

C5_Witness ==
  /\ pc = "exited"
  /\ lr_test.present
  /\ lr_test.steps = LR_TEST_STEPS

\* the per-batch losses added up value by value
RECURSIVE LossTotal(_, _)
LossTotal(vals, outs) ==
  IF vals = {} THEN 0
  ELSE LET v == CHOOSE x \in vals : TRUE
       IN  v * Cardinality({b \in 1..Len(outs) : outs[b].val_loss = v})
           + LossTotal(vals \ {v}, outs)

\* C6: validation_end reports as accuracy the number of correct examples of
\* all validation batches over the number of all examples, whatever the
\* batch sizes, and as loss the unweighted mean of the per-batch losses.
C6_ValidationAggregation ==
  valResult.raised = "none" =>
    LET idx == {bi \in (1..Len(valOutputs)) \X (1..MaxBatchSize) :
                  bi[2] <= Len(valOutputs[bi[1]].correct)}
        right == {bi \in idx : valOutputs[bi[1]].correct[bi[2]] = 1}
    IN  /\ RatEq(valResult.val_acc, Rat(Cardinality(right), Cardinality(idx)))
        /\ RatEq(valResult.val_loss,
                 Rat(LossTotal(ValLosses, valOutputs), Len(valOutputs)))

\* batches [1,0,1] and [1]: 3/4, where the mean of the batch accuracies
\* is 5/6
C6_Witness ==
  /\ valResult.raised = "none"
  /\ Len(valOutputs) = 2
  /\ valOutputs[1].correct = <<1, 0, 1>>
  /\ valOutputs[2].correct = <<1>>
  /\ valOutputs[1].val_loss # valOutputs[2].val_loss
  /\ RatEq(valResult.val_acc, Rat(3, 4))
  /\ ~RatEq(valResult.val_acc, ValAcc_meanOfBatches(valOutputs))

\* C7: once the 600th (rate, loss) pair is recorded, the next thing that
\* happens is the plot and the exit: no batch-end Stepper step and no
\* further forward pass come first, and every run that records 600 pairs
\* produces the plot.
C7_PlotImmediately ==
  [][(hparams.test_lr /\ Len(history.lr) = LR_TEST_STEPS /\ plots = 0)
       => plots' = 1]_vars

\* C8: the k-th recorded rate (k = 0..599) is the rate after exactly k
\* Stepper steps: the first is the base rate, and training_step itself
\* leaves the optimizer's rate alone.
C8_RecordedRates ==
  hparams.test_lr =>
    \A k \in 1..Len(history.lr) : history.lr[k] = k - 1

C8_Witness ==
  /\ Len(history.lr) = LR_TEST_STEPS
  /\ history.lr[1] = 0
  /\ history.lr[LR_TEST_STEPS] = LR_TEST_STEPS - 1

\* C9: with the test flag set, every on_batch_end steps the Stepper and
\* completes, for every scheduler kind; it uses no scheduler object that
\* configure_optimizers did not construct.
C9_TestModeBatchEndCompletes ==
  hparams.test_lr => error # "AttributeError"

\* C10: a training_step that would smooth with no prior smoothed loss ends
\* in an explicit error and leaves the history unchanged, the two
\* sequences still of equal length.
C10_SmoothingErrorLeavesHistory ==
  error = "IndexError" =>
    /\ Len(history.lr) = Len(history.loss)
    /\ history = [lr |-> <<>>, loss |-> <<>>]

====
